---- MODULE Spec2Model ----
(***************************************************************************)
(* LookupTable<T, TABLE_SIZE>::get (src/LookupTable.h), one call of get on *)
(* one table, executed statement by statement.                             *)
(*                                                                         *)
(* T is modelled as a floating-point element type (get computes in double  *)
(* and the header includes <cmath>): the values are integers, which the    *)
(* arithmetic treats exactly, and the one value NaN, every ordered         *)
(* comparison with which is false.  The value get returns is kept as an    *)
(* exact fraction <<numerator, denominator>>; rounding of the double       *)
(* arithmetic is not modelled.                                             *)
(* size_t is an unsigned integer of IndexBits bits.                        *)
(***************************************************************************)
EXTENDS Integers, Sequences, FiniteSets

VARIABLES m_x, m_f, t, pc, low, high, mid, cmp, mask, iters, reads, result, ret

vars == <<m_x, m_f, t, pc, low, high, mid, cmp, mask, iters, reads, result, ret>>

(* ------------------------------ bounds --------------------------------- *)
\* largest TABLE_SIZE of the enumerated tables
MaxN == 4
\* the enumerated samples are the even numbers 0, 2, .. 2 * MaxVal
MaxVal == 2
\* width of size_t in the model
IndexBits == 4

(* --------------------------- element type T ---------------------------- *)
NaN == -1000

IsNaN(v) == v = NaN

\* t <= a, t >= a, t > a on T: false as soon as one side is NaN
\* variants with the strict comparison in place of <= and >=
LeStrict(a, b) == ~IsNaN(a) /\ ~IsNaN(b) /\ a < b
GeStrict(a, b) == ~IsNaN(a) /\ ~IsNaN(b) /\ a > b
Le(a, b) == ~IsNaN(a) /\ ~IsNaN(b) /\ a <= b
Ge(a, b) == ~IsNaN(a) /\ ~IsNaN(b) /\ a >= b
Gt(a, b) == ~IsNaN(a) /\ ~IsNaN(b) /\ a > b

\* a - b on T
Minus(a, b) == IF IsNaN(a) \/ IsNaN(b) THEN NaN ELSE a - b

\* results of get: exact fractions; 0/0 stands for a NaN result
RNaN == <<0, 0>>
Zero == <<0, 1>>
Value(v) == IF IsNaN(v) THEN RNaN ELSE <<v, 1>>

(* ------------------------------ size_t --------------------------------- *)
IndexMod == 2 ^ IndexBits

U(n) == n % IndexMod

USub(a, b) == (a + IndexMod - b) % IndexMod

RECURSIVE BitAnd(_, _, _)
BitAnd(a, b, n) ==
    IF n = 0 THEN 0
    ELSE (a % 2) * (b % 2) + 2 * BitAnd(a \div 2, b \div 2, n - 1)

RECURSIVE BitOr(_, _, _)
BitOr(a, b, n) ==
    IF n = 0 THEN 0
    ELSE (IF a % 2 = 1 \/ b % 2 = 1 THEN 1 ELSE 0)
         + 2 * BitOr(a \div 2, b \div 2, n - 1)

And(a, b) == BitAnd(a, b, IndexBits)
Or(a, b) == BitOr(a, b, IndexBits)
Not(a) == IndexMod - 1 - a

(* --------------------------- the table --------------------------------- *)
TABLE_SIZE == Len(m_x)

\* element i (0-based) of a std::array
At(a, i) == a[i + 1]

InRange(a, i) == i >= 0 /\ i < Len(a)

XVals == {2 * k : k \in 0 .. MaxVal} \cup {NaN}
FVals == {0, 1}
TVals == (-1 .. 2 * MaxVal + 1) \cup {NaN}

\* the two tables of larger size: the scenario x = [0,10,20,30],
\* f = [0,100,50,200], and one of five samples
ScenarioX == {<<0, 10, 20, 30>>, <<0, 10, 20, 30, 40>>}
ScenarioF(x) == IF Len(x) = 4 THEN <<0, 100, 50, 200>> ELSE <<0, 100, 50, 200, 120>>
ScenarioT == {-5, 0, 5, 10, 15, 25, 30, 35, 45}

\* what reading a[i] gives: the element, or, outside the array, anything
ReadOf(a, i, any) == IF InRange(a, i) THEN {At(a, i)} ELSE any

\* whether a read of a[i] can fault: only outside the array
Faults(a, i) == IF InRange(a, i) THEN {FALSE} ELSE {FALSE, TRUE}

(* --------------------------- get, line by line -------------------------- *)
\* variant: the guard without the test for an empty table
SizeGuardMismatchOnly == Len(m_f) # Len(m_x)

\* line 34
SizeGuard == Len(m_x) = 0 \/ Len(m_f) # Len(m_x)

\* line 50
InitHigh == TABLE_SIZE

\* variant: a linear scan, mid one above low
MidLinear(lo, hi) == U(lo + 1)

\* line 57
Mid(lo, hi) == U(lo + (USub(hi, lo) \div 2))

\* variant: the comparison the wrong way round
CmpReversed(tt, xm) == IF Gt(xm, tt) THEN 1 ELSE 0

\* line 60
Cmp(tt, xm) == IF Gt(tt, xm) THEN 1 ELSE 0

\* variant: the mask without the negation, 1 instead of all ones
MaskNoNegate(c) == U(c)

\* line 63
Mask(c) == U(IndexMod - c)

\* line 84
SelLow(m, lo, msk) == Or(And(m, msk), And(lo, Not(msk)))

\* line 85
SelHigh(m, hi, msk) == Or(And(m, Not(msk)), And(hi, msk))

\* line 54
LoopCond(lo, hi) == USub(hi, lo) > 1

\* variant: the operands of the difference exchanged
DenomReversed(xl, xh) == Minus(xl, xh)

\* line 90
Denom(xl, xh) == Minus(xh, xl)

\* variant: x[low] and x[high] exchanged in the intercept
InterpSwapped(xl, xh, fl, fh, tt) ==
    IF IsNaN(Minus(xh, xl)) \/ IsNaN(tt) THEN RNaN
    ELSE <<(fh - fl) * tt + (xl * fl - xh * fh), Minus(xh, xl)>>

\* line 96
Interp(xl, xh, fl, fh, tt) ==
    IF IsNaN(Denom(xl, xh)) \/ IsNaN(tt) THEN RNaN
    ELSE <<(fh - fl) * tt + (xh * fl - xl * fh), Denom(xl, xh)>>

Init ==
    /\ \/ /\ \E n \in 0 .. MaxN : m_x \in [1 .. n -> XVals]
          /\ m_f \in [1 .. Len(m_x) -> FVals]
          /\ t \in TVals
       \/ /\ m_x \in ScenarioX
          /\ m_f = ScenarioF(m_x)
          /\ t \in ScenarioT
    /\ pc = "entry"
    /\ low = 0
    /\ high = 0
    /\ mid = 0
    /\ cmp = 0
    /\ mask = 0
    /\ iters = 0
    /\ reads = {}
    /\ result = Zero
    /\ ret = "none"

Return(r, how) ==
    /\ result' = r
    /\ ret' = how
    /\ pc' = "done"

CheckSizes ==
    /\ pc = "entry"
    /\ IF SizeGuard
          THEN Return(Zero, "size")
          ELSE pc' = "front" /\ UNCHANGED <<result, ret>>
    /\ UNCHANGED <<m_x, m_f, t, low, high, mid, cmp, mask, iters, reads>>

\* lines 40-43
ClampFront ==
    /\ pc = "front"
    /\ \E x0 \in ReadOf(m_x, 0, XVals), f0 \in ReadOf(m_f, 0, FVals),
          fault \in Faults(m_x, 0) :
          IF fault
             THEN /\ pc' = "crashed"
                  /\ reads' = reads \cup {<<"x", 0>>}
                  /\ UNCHANGED <<result, ret>>
             ELSE IF Le(t, x0)
                     THEN /\ Return(Value(f0), "front")
                          /\ reads' = reads \cup {<<"x", 0>>, <<"f", 0>>}
                     ELSE /\ pc' = "back"
                          /\ reads' = reads \cup {<<"x", 0>>}
                          /\ UNCHANGED <<result, ret>>
    /\ UNCHANGED <<m_x, m_f, t, low, high, mid, cmp, mask, iters>>

\* lines 44-47
ClampBack ==
    /\ pc = "back"
    /\ LET last == TABLE_SIZE - 1 IN
       \E xb \in ReadOf(m_x, last, XVals), fb \in ReadOf(m_f, last, FVals),
          fault \in Faults(m_x, last) :
          IF fault
             THEN /\ pc' = "crashed"
                  /\ reads' = reads \cup {<<"x", last>>}
                  /\ UNCHANGED <<result, ret>>
             ELSE IF Ge(t, xb)
                     THEN /\ Return(Value(fb), "back")
                          /\ reads' = reads \cup {<<"x", last>>, <<"f", last>>}
                     ELSE /\ pc' = "init"
                          /\ reads' = reads \cup {<<"x", last>>}
                          /\ UNCHANGED <<result, ret>>
    /\ UNCHANGED <<m_x, m_f, t, low, high, mid, cmp, mask, iters>>

InitBounds ==
    /\ pc = "init"
    /\ low' = 0
    /\ high' = InitHigh
    /\ pc' = "loop"
    /\ UNCHANGED <<m_x, m_f, t, mid, cmp, mask, iters, reads, result, ret>>

LoopBody ==
    /\ pc = "loop"
    /\ LoopCond(low, high)
    /\ mid' = Mid(low, high)
    /\ reads' = reads \cup {<<"x", mid'>>}
    /\ \E xm \in ReadOf(m_x, mid', XVals), fault \in Faults(m_x, mid') :
          /\ cmp' = Cmp(t, xm)
          /\ pc' = IF fault THEN "crashed" ELSE "loop"
    /\ mask' = Mask(cmp')
    /\ low' = SelLow(mid', low, mask')
    /\ high' = SelHigh(mid', high, mask')
    /\ iters' = iters + 1
    /\ UNCHANGED <<m_x, m_f, t, result, ret>>

LoopExit ==
    /\ pc = "loop"
    /\ ~LoopCond(low, high)
    /\ pc' = "interp"
    /\ UNCHANGED <<m_x, m_f, t, low, high, mid, cmp, mask, iters, reads, result, ret>>

Interpolate ==
    /\ pc = "interp"
    /\ \E xl \in ReadOf(m_x, low, XVals), xh \in ReadOf(m_x, high, XVals),
          fl \in ReadOf(m_f, low, FVals), fh \in ReadOf(m_f, high, FVals),
          fault \in Faults(m_x, low) \cup Faults(m_x, high) :
          IF fault
             THEN /\ pc' = "crashed"
                  /\ reads' = reads \cup {<<"x", high>>, <<"x", low>>}
                  /\ UNCHANGED <<result, ret>>
             ELSE IF Denom(xl, xh) = 0
                     THEN /\ Return(Zero, "denom")
                          /\ reads' = reads \cup {<<"x", high>>, <<"x", low>>}
                     ELSE /\ Return(Interp(xl, xh, fl, fh, t), "interp")
                          /\ reads' = reads \cup {<<"x", high>>, <<"x", low>>,
                                                  <<"f", high>>, <<"f", low>>}
    /\ UNCHANGED <<m_x, m_f, t, low, high, mid, cmp, mask, iters>>

Next ==
    \/ CheckSizes
    \/ ClampFront
    \/ ClampBack
    \/ InitBounds
    \/ LoopBody
    \/ LoopExit
    \/ Interpolate

Spec == Init /\ [][Next]_vars


(* ------------------ one loop iteration on any bounds --------------------- *)
\* the loop body applied to every pair of size_t values the loop condition
\* admits, whatever the comparison gives
SelectInit ==
    /\ m_x \in ScenarioX
    /\ m_f = ScenarioF(m_x)
    /\ t \in ScenarioT
    /\ pc = "loop"
    /\ low \in 0 .. IndexMod - 1
    /\ high \in 0 .. IndexMod - 1
    /\ mid = 0
    /\ cmp = 0
    /\ mask = 0
    /\ iters = 0
    /\ reads = {}
    /\ result = Zero
    /\ ret = "none"

SelectNext == LoopBody

SelectSpec == SelectInit /\ [][SelectNext]_vars

(* ------------------------------ properties ------------------------------ *)
N == Len(m_x)

Done == pc = "done"

\* x holds numbers only and is non-decreasing
Sorted ==
    /\ \A i \in 1 .. N : m_x[i] # NaN
    /\ \A i \in 1 .. N - 1 : m_x[i] <= m_x[i + 1]

StrictlySorted ==
    /\ \A i \in 1 .. N : m_x[i] # NaN
    /\ \A i \in 1 .. N - 1 : m_x[i] < m_x[i + 1]

\* two results are the same number
RatEq(r, s) == r[2] # 0 /\ s[2] # 0 /\ r[1] * s[2] = s[1] * r[2]

Is(r, v) == RatEq(r, <<v, 1>>)

\* t is one of the samples
IsSample == t # NaN /\ \E i \in 1 .. N : m_x[i] = t

\* the first 0-based index whose sample is t
FirstIndex == (CHOOSE i \in 1 .. N : m_x[i] = t /\ \A j \in 1 .. i - 1 : m_x[j] # t) - 1

\* x[0] < t < x[N-1]
Inside == N >= 1 /\ t # NaN /\ m_x[1] # NaN /\ m_x[N] # NaN /\ m_x[1] < t /\ t < m_x[N]

RECURSIVE CeilLog2From(_, _)
CeilLog2From(n, k) == IF 2 ^ k >= n THEN k ELSE CeilLog2From(n, k + 1)

CeilLog2(n) == CeilLog2From(n, 0)

\* the search has run to its end
Searched == pc = "interp" \/ (pc = "done" /\ ret \in {"denom", "interp"})

\* C1 as stated: on a non-empty table with non-decreasing x, get(t) is f[0]
\* whenever t <= x[0] and f[N-1] whenever t >= x[N-1].
C1_ClampBothEnds ==
    (Done /\ N >= 1 /\ Sorted /\ t # NaN) =>
        /\ (t <= m_x[1] => Is(result, m_f[1]))
        /\ (t >= m_x[N] => Is(result, m_f[N]))

\* C1 amended: get(t) is f[0] whenever t <= x[0], and f[N-1] whenever
\* t >= x[N-1] and t > x[0]; the front clamp is tested first, so on a table
\* whose x is constant get(x[N-1]) is f[0].
C1_ClampFrontFirst ==
    (Done /\ N >= 1 /\ Sorted /\ t # NaN) =>
        /\ (t <= m_x[1] => Is(result, m_f[1]) /\ ret = "front")
        /\ (t >= m_x[N] /\ t > m_x[1] => Is(result, m_f[N]) /\ ret = "back")

C1_Witness ==
    /\ Done /\ N >= 2 /\ Sorted /\ t # NaN
    /\ t = m_x[N] /\ t > m_x[1] /\ m_x[N - 1] = m_x[N]
    /\ m_f[N] # m_f[N - 1] /\ Is(result, m_f[N])

\* C2 as stated: on a non-decreasing table get(x[i]) is f[i] for every i,
\* also when x[i] equals a neighbouring sample.
C2_EverySample ==
    (Done /\ N >= 1 /\ Sorted /\ t # NaN) =>
        \A i \in 1 .. N : m_x[i] = t => Is(result, m_f[i])

\* C2 amended: get(x[i]) is the f of one sample equal to x[i]: f[0] when
\* x[i] = x[0], else f[N-1] when x[i] = x[N-1], else the f of the first
\* sample equal to x[i]; so it is f[i] whenever x[i] occurs once in x.
C2_ChosenSample ==
    (Done /\ N >= 1 /\ Sorted /\ IsSample) =>
        /\ (t = m_x[1] => Is(result, m_f[1]))
        /\ (t # m_x[1] /\ t = m_x[N] => Is(result, m_f[N]))
        /\ (t # m_x[1] /\ t # m_x[N] => Is(result, m_f[FirstIndex + 1]) /\ ret = "interp")
        /\ \A i \in 1 .. N :
              (m_x[i] = t /\ \A j \in 1 .. N : m_x[j] = t => j = i) => Is(result, m_f[i])

C2_Witness ==
    /\ Done /\ N >= 4 /\ Sorted /\ IsSample
    /\ t # m_x[1] /\ t # m_x[N]
    /\ ret = "interp"
    /\ m_x[FirstIndex + 2] = t
    /\ m_f[FirstIndex + 2] # m_f[FirstIndex + 1]
    /\ Is(result, m_f[FirstIndex + 1])

\* C3: on a strictly increasing table, for x[i] < t < x[i+1], get(t) is the
\* value at t of the line through (x[i], f[i]) and (x[i+1], f[i+1]); on
\* x = [0,10,20,30], f = [0,100,50,200] it gives get(5) = 50, get(15) = 75.
C3_Interpolation ==
    (Done /\ N >= 2 /\ StrictlySorted /\ t # NaN) =>
        /\ \A i \in 1 .. N - 1 :
              (m_x[i] < t /\ t < m_x[i + 1]) =>
                 /\ ret = "interp"
                 /\ RatEq(result,
                          <<m_f[i] * (m_x[i + 1] - m_x[i]) + (m_f[i + 1] - m_f[i]) * (t - m_x[i]),
                            m_x[i + 1] - m_x[i]>>)
        /\ (m_x = <<0, 10, 20, 30>> /\ t = 5 => Is(result, 50))
        /\ (m_x = <<0, 10, 20, 30>> /\ t = 15 => Is(result, 75))

C3_Witness ==
    /\ Done /\ m_x = <<0, 10, 20, 30>> /\ m_f = <<0, 100, 50, 200>>
    /\ t = 15 /\ ret = "interp" /\ low = 1 /\ high = 2 /\ Is(result, 75)

\* C4: on a table of size 0, or with x and f of differing length, get returns
\* zero at once: no element of x or f is read, the loop is never entered.
C4_DegenerateTable ==
    ((N = 0 \/ Len(m_f) # N) /\ pc # "entry") =>
        /\ Done
        /\ ret = "size"
        /\ result = Zero
        /\ reads = {}
        /\ iters = 0

C4_Witness == Done /\ N = 0 /\ Len(m_f) = 0 /\ ret = "size" /\ result = Zero /\ t # NaN

\* C5 as stated: on every table with N >= 1, sorted or not, and every query,
\* every index used to read x or f lies in 0 .. N-1 and get returns a value.
C5_ReadsInRange ==
    N >= 1 =>
        /\ pc # "crashed"
        /\ \A r \in reads : r[2] \in 0 .. N - 1

\* C6: on a non-decreasing table and x[0] < t < x[N-1] the loop terminates
\* (each iteration narrows high - low, which stays positive) and on exit
\* low < high, high - low = 1 and x[low] <= t <= x[high].
C6_SearchBrackets ==
    (Sorted /\ Inside) =>
        /\ pc # "crashed"
        /\ (pc = "loop" \/ Searched) =>
              /\ low < high
              /\ high <= N
              /\ (high - low) + iters <= N
        /\ Searched =>
              /\ high - low = 1
              /\ high <= N - 1
              /\ m_x[low + 1] <= t
              /\ t <= m_x[high + 1]

C6_Witness ==
    /\ Sorted /\ Inside /\ pc = "interp" /\ N >= 4
    /\ low >= 1 /\ high = low + 1 /\ iters >= 2
    /\ m_x[low + 1] < t /\ t < m_x[high + 1]

\* C7: for N >= 2 the loop runs at most ceil(log2(N)) iterations, whatever
\* the comparisons give (sorted or unsorted x, any query).
C7_IterationBound ==
    N >= 2 =>
        /\ iters <= CeilLog2(N)
        /\ (pc = "loop" /\ iters = CeilLog2(N) => ~LoopCond(low, high))

C7_Witness == pc = "interp" /\ N = 5 /\ iters = 3 /\ CeilLog2(N) = 3

\* C8 as stated: on a non-decreasing table (duplicates allowed) no query
\* returns through the denom == 0 branch.  Stated for N >= 2, where low and
\* high are two samples of the table.
C8_NoZeroDenominator == (Sorted /\ N >= 2) => ret # "denom"

\* C8 amended: on a non-decreasing table no query other than NaN returns
\* through the denom == 0 branch: the search ends with x[low] < t <= x[high].
C8_NoZeroDenominatorOrdered ==
    (Sorted /\ t # NaN) =>
        /\ ret # "denom"
        /\ (Searched => m_x[low + 1] < t /\ t <= m_x[high + 1])

C8_Witness ==
    /\ Done /\ Sorted /\ t # NaN /\ ret = "interp" /\ N >= 3
    /\ m_x[1] = m_x[2]
    /\ \E i \in 2 .. N - 1 : m_x[i] = m_x[i + 1]

\* C9 as stated: the search starts with low = 0 and high = N-1, both valid
\* indices of x.
C9_InitialBounds ==
    (pc = "loop" /\ iters = 0) =>
        /\ low = 0
        /\ high = N - 1
        /\ InRange(m_x, low)
        /\ InRange(m_x, high)

\* C10: in every loop iteration, for all size_t values of low and high, the
\* mask is all ones when t > x[mid] and zero otherwise, the masked
\* assignments give low' = (cmp ? mid : low) and high' = (cmp ? high : mid),
\* and exactly one of the two bounds changes, to mid.
C10_MaskedSelect ==
    [][(pc = "loop" /\ iters' = iters + 1) =>
          /\ mid' = (low + (((high - low) % IndexMod) \div 2)) % IndexMod
          /\ cmp' \in {0, 1}
          /\ (InRange(m_x, mid') => (cmp' = 1) = (t # NaN /\ At(m_x, mid') # NaN /\ t > At(m_x, mid')))
          /\ mask' = (IF cmp' = 1 THEN IndexMod - 1 ELSE 0)
          /\ low' = (IF cmp' = 1 THEN mid' ELSE low)
          /\ high' = (IF cmp' = 1 THEN high ELSE mid')
          /\ (low' # low) # (high' # high)
          /\ (low' = mid') # (high' = mid')]_vars

C10_Witness ==
    /\ iters >= 1 /\ cmp = 1 /\ mask = IndexMod - 1
    /\ low = mid /\ high < low /\ mid > N
====
